---- MODULE Spec2Model ----
(***************************************************************************)
(* Crash / connected-vehicle linkage: the proximity matcher                *)
(* (crash_vehicle_linkage.py), the temporal correlator and scorer          *)
(* (temporal_spatial_matcher.py) and the batch drivers                     *)
(* (resume_analysis_efficient.py, run_full_analysis.py), the involvement  *)
(* classifier with the participant filter, and the two crash identity      *)
(* reconcilers of archive/versions.                                        *)
(*                                                                         *)
(* Five specifications share the module: SpecLinkage, SpecTemporal,        *)
(* SpecBatch, SpecClassify and SpecReconcile.  Each one moves its own      *)
(* variables and leaves the variables of the others at their idle values.  *)
(***************************************************************************)
EXTENDS Integers, Sequences, FiniteSets, TLC

VARIABLES
    \* ---- proximity matcher (one trip row against the crash index) ----
    crashes,          \* self.crashes[['X','Y']]: 0..n-1 -> projected position
    treeInclusive,    \* whether cKDTree keeps a neighbour at exactly the bound
    row,              \* the trip row: its RawPath entries
    path_nztm,        \* the decoded, projected path
    point_idx,        \* position of the loop over the path (0-based)
    crash_matches,    \* crash_idx -> <<dist, point_idx>> or NoMatch
    nearby,           \* the list find_nearby_crashes returned
    matches_in_file,  \* the match records of this row
    lpc,              \* position in process_vehicle_file for this row
    \* ---- temporal_match ----
    spatial_matches,  \* the rows of crash_vehicle_matches_full.csv
    tcrashes,         \* crashes: 'Crash identifier' -> record with its datetime
    tw,               \* position in time_windows (1-based)
    ti,               \* position of the loop over spatial_matches (0-based)
    matched,          \* the list 'matched' of the current window
    skipped_no_time,
    skipped_no_crash,
    results_by_window,
    exported,         \* the files export_results wrote, by window
    tpc,
    \* ---- batch drivers (resume_analysis, run_full_analysis) ----
    vehicle_files,    \* per file what process_vehicle_file does with it
    out,              \* crash_vehicle_matches_full.csv
    driver,           \* the driver of the current run
    bpc,              \* position of the current run
    start_index,
    idx,              \* idx / file_idx of the loop (1-based, as enumerated)
    all_matches,      \* run_full_analysis: matches not yet on disk or on disk
    total_new_matches,
    runs,             \* number of runs started
    sink_failures,    \* number of failed writes so far
    \* history of the runs, for the claims
    processed,        \* files of this run whose processing returned
    failed_writes,    \* files of this run whose write raised
    logged,           \* files of this run for which an ERROR line was printed
    history,          \* the runs that ended, oldest first
    \* ---- involvement classifier and participant filter (one match) ----
    cmatch,           \* the row of confirmed_crash_vehicles_5min.csv
    trip_data_cache,  \* the trip record found for its trip_id, or none
    points_after_crash,
    ci,               \* i of the loop over the samples (0-based)
    crash_involved,   \* rows of crash_INVOLVED_vehicles.csv
    witnesses,        \* rows of crash_WITNESSES.csv
    candidates,
    cand_idx,         \* position of the loop over candidates (0-based)
    emergency_responders,
    crash_participants,
    unknown,
    cpc,              \* position in the two scripts
    \* ---- crash identity reconcilers (one row of the spatial matches) ----
    variant,          \* "v2" (KD-tree) or "simple" (linear scan)
    nzta_crashes,     \* the authoritative catalogue, in file order
    recon_row,        \* the row of crash_vehicle_matches_full.csv
    nzta_idx,         \* position of the linear scan (0-based)
    min_dist,
    closest_crash,    \* index of the closest crash so far, or NoCrash
    spatial_matches_with_nzta,
    coord_matched,    \* matched_count / coord_matched
    no_coord_match,
    confirmed,        \* the reconciler's results_by_window
    rpc

lvars == <<crashes, treeInclusive, row, path_nztm, point_idx, crash_matches, nearby,
           matches_in_file, lpc>>

tvars == <<spatial_matches, tcrashes, tw, ti, matched, skipped_no_time,
           skipped_no_crash, results_by_window, exported, tpc>>

bvars == <<vehicle_files, out, driver, bpc, start_index, idx, all_matches,
           total_new_matches, runs, sink_failures, processed, failed_writes, logged,
           history>>

cvars == <<cmatch, trip_data_cache, points_after_crash, ci, crash_involved,
           witnesses, candidates, cand_idx, emergency_responders, crash_participants,
           unknown, cpc>>

rvars == <<variant, nzta_crashes, recon_row, nzta_idx, min_dist, closest_crash,
           spatial_matches_with_nzta, coord_matched, no_coord_match, confirmed,
           rpc>>

vars == <<lvars, tvars, bvars, cvars, rvars>>

notLinkage == <<tvars, bvars, cvars, rvars>>
notTemporal == <<lvars, bvars, cvars, rvars>>
notBatch == <<lvars, tvars, cvars, rvars>>
notClassify == <<lvars, tvars, bvars, rvars>>
notReconcile == <<lvars, tvars, bvars, cvars>>

----------------------------------------------------------------------------
(* Bounds of the model *)

\* most crashes in the index
MaxCrashes == 11
\* most entries in a RawPath
MaxPath == 2
\* most rows in the spatial matches file
MaxMatches == 2
\* most vehicle files of a small corpus
MaxFiles == 3
\* most runs of a batch driver, one after the other
MaxRuns == 2
\* most faults over the runs of the batch drivers: failed writes to the
\* output file and runs stopped from outside, taken together
MaxFaults == 1
\* samples of a trip given to the classifier
MaxSamples == 3
\* crashes of the authoritative catalogue
MaxCatalogue == 2

----------------------------------------------------------------------------
(* Proximity matcher: crash_vehicle_linkage.py *)

\* buffer_distance=100
buffer_distance == 100
\* k=10 in the tree query
QueryK == 10

\* A crash with no entry in crash_matches.
NoMatch == <<>>
\* numpy.inf, the distance of a missing neighbour: beyond every real distance.
Inf == 1000 * buffer_distance

\* Projected (NZTM) positions of crash sites.
CrashPos == {<<0, 0>>, <<100, 0>>}

\* RawPath entries that decode to a point, as sample labels, and what
\* transformer_to_nztm makes of each.  The positions are chosen so that every
\* sample-to-crash distance is a whole number of metres:
\*   s1: 60 / 80   s2: 180 / 80   s3: 188 / 88   s4: 100 / 120
SampleLabels == {"s1", "s2", "s3", "s4"}
transformer_to_nztm(label) ==
    CASE label = "s1" -> <<36, 48>>
      [] label = "s2" -> <<180, 0>>
      [] label = "s3" -> <<188, 0>>
      [] label = "s4" -> <<28, 96>>

\* A RawPath entry that does not split into two fields, and one whose fields
\* are not numbers.
BadShape == "bad_shape"
NonNumeric == "non_numeric"
PathEntries == SampleLabels \cup {BadShape, NonNumeric}

\* A row whose RawPath is missing (NaN) or the empty string.
NoPath == [isna |-> TRUE, RawPath |-> <<>>]

Abs(x) == IF x < 0 THEN 0 - x ELSE x

\* The largest r in lo..hi with r * r <= n, by bisection.
RECURSIVE RootIn(_, _, _)
RootIn(n, lo, hi) ==
    IF lo >= hi THEN lo
    ELSE LET mid == (lo + hi + 1) \div 2
         IN  IF mid * mid <= n THEN RootIn(n, mid, hi)
             ELSE RootIn(n, lo, mid - 1)

\* np.sqrt on the squares the model's positions produce (all of them perfect
\* squares); hi bounds the root.
Sqrt(n, hi) == RootIn(n, 0, hi)

point_to_point_distance(x1, y1, x2, y2) ==
    Sqrt((x2 - x1) * (x2 - x1) + (y2 - y1) * (y2 - y1),
         Abs(x2 - x1) + Abs(y2 - y1))

Dist(p, q) == point_to_point_distance(p[1], p[2], q[1], q[2])

\* Variant of the decoder: a non-numeric entry is left out like an entry of
\* the wrong shape.
parse_path_stringLenient(path_str) ==
    IF path_str.isna THEN <<>>
    ELSE SelectSeq(path_str.RawPath, LAMBDA e : e \in SampleLabels)

\* parse_path_string: a missing path and a path with a non-numeric entry give
\* [] (the except clause); an entry of the wrong shape is left out.
parse_path_string(path_str) ==
    IF path_str.isna THEN <<>>
    ELSE IF \E i \in 1..Len(path_str.RawPath) : path_str.RawPath[i] = NonNumeric
         THEN <<>>
    ELSE SelectSeq(path_str.RawPath, LAMBDA e : e \in SampleLabels)

convert_path_to_nztm(path_points) ==
    [i \in 1..Len(path_points) |-> transformer_to_nztm(path_points[i])]

NumCrashes == Cardinality(DOMAIN crashes)

\* The crashes the tree may report for point p: those within the bound
\* (strictly, or not, as the library decides).
InBound(p) ==
    {c \in DOMAIN crashes :
        IF treeInclusive THEN Dist(p, crashes[c]) <= buffer_distance
        ELSE Dist(p, crashes[c]) < buffer_distance}

\* The subsets of S (a set of crash indices) with k elements.
RECURSIVE SubsetsOfSize(_, _)
SubsetsOfSize(S, k) ==
    IF k = 0 THEN {{}}
    ELSE UNION {{T \cup {x} : T \in SubsetsOfSize({y \in S : y > x}, k - 1)} :
                  x \in S}

\* One row of crash_tree.query(..., k=10, distance_upper_bound=...): the k
\* nearest crashes within the bound as <<dist, index>> pairs; among crashes
\* at the same distance the library chooses.  Missing neighbours are
\* <<inf, n>>.
QueryRows(p) ==
    UNION {
        LET d(c) == dists[c]
            Pad == {<<Inf, NumCrashes>>}
            Pairs(S) == {<<d(c), c>> : c \in S}
        IN  IF Cardinality(W) < QueryK THEN {Pairs(W) \cup Pad}
            ELSE IF Cardinality(W) = QueryK THEN {Pairs(W)}
            ELSE LET t == CHOOSE t \in {d(c) : c \in W} :
                              /\ Cardinality({c \in W : d(c) < t}) < QueryK
                              /\ Cardinality({c \in W : d(c) <= t}) >= QueryK
                     Sure == {c \in W : d(c) < t}
                     Tied == {c \in W : d(c) = t}
                 IN  {Pairs(Sure \cup (Tied \ D)) :
                         D \in SubsetsOfSize(Tied,
                                   Cardinality(Sure) + Cardinality(Tied) - QueryK)}
        : <<W, dists>> \in
              {<<InBound(p), [c \in DOMAIN crashes |-> Dist(p, crashes[c])]>>}}

\* The test of line 91.
Accepted(e) == e[1] <= buffer_distance /\ e[2] < NumCrashes

\* The test of line 92.
Replaces(e, cur) == cur = NoMatch \/ e[1] < cur[1]

\* The inner loop over one row of the query (lines 90-93).  A crash occurs at
\* most once in a row, so the order of the row does not matter.
ScanRow(cm, qrow, pidx) ==
    [c \in DOMAIN cm |->
        IF \E e \in qrow : e[2] = c /\ Accepted(e) /\ Replaces(e, cm[c])
        THEN LET e == CHOOSE e \in qrow : e[2] = c IN <<e[1], pidx>>
        ELSE cm[c]]

\* Line 95: the list built from the dictionary, as a set of triples.
MatchList(cm) ==
    {<<c, cm[c][1], cm[c][2]>> : c \in {c \in DOMAIN cm : cm[c] # NoMatch}}

\* Crash layouts: a crashes at the first position, b at the second.
Layout(a, b) ==
    [c \in 0..(a + b - 1) |-> IF c < a THEN <<0, 0>> ELSE <<100, 0>>]

RECURSIVE SeqsUpTo(_, _)
SeqsUpTo(S, n) ==
    IF n = 0 THEN {<<>>}
    ELSE LET R == SeqsUpTo(S, n - 1)
         IN  R \cup {Append(s, e) : s \in {r \in R : Len(r) = n - 1}, e \in S}

IdleLinkage ==
    /\ crashes = <<>>
    /\ treeInclusive = FALSE
    /\ row = NoPath
    /\ path_nztm = <<>>
    /\ point_idx = 0
    /\ crash_matches = <<>>
    /\ nearby = {}
    /\ matches_in_file = {}
    /\ lpc = "idle"

IdleTemporal ==
    /\ spatial_matches = <<>>
    /\ tcrashes = <<>>
    /\ tw = 0
    /\ ti = 0
    /\ matched = <<>>
    /\ skipped_no_time = 0
    /\ skipped_no_crash = 0
    /\ results_by_window = <<>>
    /\ exported = <<>>
    /\ tpc = "idle"

IdleBatch ==
    /\ vehicle_files = <<>>
    /\ out = [exists |-> FALSE, lines |-> <<>>]
    /\ driver = "none"
    /\ bpc = "idle"
    /\ start_index = 0
    /\ idx = 0
    /\ all_matches = <<>>
    /\ total_new_matches = 0
    /\ runs = 0
    /\ sink_failures = 0
    /\ processed = {}
    /\ failed_writes = {}
    /\ logged = {}
    /\ history = <<>>

NoTrip == [found |-> FALSE, samples |-> <<>>, origin_hospital |-> 0,
           dest_hospital |-> 0]

IdleClassify ==
    /\ cmatch = <<>>
    /\ trip_data_cache = NoTrip
    /\ points_after_crash = <<>>
    /\ ci = 0
    /\ crash_involved = <<>>
    /\ witnesses = <<>>
    /\ candidates = <<>>
    /\ cand_idx = 0
    /\ emergency_responders = <<>>
    /\ crash_participants = <<>>
    /\ unknown = <<>>
    /\ cpc = "idle"

NoCrash == 0 - 1

IdleReconcile ==
    /\ variant = "none"
    /\ nzta_crashes = <<>>
    /\ recon_row = <<>>
    /\ nzta_idx = 0
    /\ min_dist = 0
    /\ closest_crash = NoCrash
    /\ spatial_matches_with_nzta = <<>>
    /\ coord_matched = 0
    /\ no_coord_match = 0
    /\ confirmed = <<>>
    /\ rpc = "idle"

InitLinkage ==
    /\ IdleReconcile
    /\ IdleTemporal
    /\ IdleBatch
    /\ IdleClassify
    /\ \E a \in {0, 1} \cup (QueryK - 1)..MaxCrashes, b \in 0..1 :
          /\ a + b >= 1
          /\ a + b <= MaxCrashes
          /\ crashes = Layout(a, b)
    /\ treeInclusive \in BOOLEAN
    /\ row \in {NoPath} \cup
                {[isna |-> FALSE, RawPath |-> r] :
                    r \in SeqsUpTo(PathEntries, MaxPath) \ {<<>>}}
    /\ path_nztm = <<>>
    /\ point_idx = 0
    /\ crash_matches = [c \in DOMAIN crashes |-> NoMatch]
    /\ nearby = {}
    /\ matches_in_file = {}
    /\ lpc = "parse"

\* process_vehicle_file lines 108-110: a row without a usable path is skipped.
SkipRow ==
    /\ lpc = "parse"
    /\ parse_path_string(row) = <<>>
    /\ lpc' = "done"
    /\ UNCHANGED <<crashes, treeInclusive, row, path_nztm, point_idx, crash_matches,
                   nearby, matches_in_file>>
    /\ UNCHANGED notLinkage

\* process_vehicle_file lines 108-113 and find_nearby_crashes up to line 87.
DecodeRow ==
    /\ lpc = "parse"
    /\ parse_path_string(row) # <<>>
    /\ path_nztm' = convert_path_to_nztm(parse_path_string(row))
    /\ point_idx' = 0
    /\ crash_matches' = [c \in DOMAIN crashes |-> NoMatch]
    /\ lpc' = "scan"
    /\ UNCHANGED <<crashes, treeInclusive, row, nearby, matches_in_file>>
    /\ UNCHANGED notLinkage

\* One turn of the loop of line 89, with the row of the query for that point.
ScanPoint ==
    /\ lpc = "scan"
    /\ point_idx < Len(path_nztm)
    /\ \E qrow \in QueryRows(path_nztm[point_idx + 1]) :
          crash_matches' = ScanRow(crash_matches, qrow, point_idx)
    /\ point_idx' = point_idx + 1
    /\ UNCHANGED <<crashes, treeInclusive, row, path_nztm, nearby, matches_in_file,
                   lpc>>
    /\ UNCHANGED notLinkage

\* row['TimestampPath'].split(','), row['SpeedPath'].split(',') and
\* row['XAccPath'].split(','): one token for each entry of the RawPath, the
\* token of the entry at raw position i (0-based) written i.
TimestampPath(r) == [i \in 1..Len(r.RawPath) |-> i - 1]
SpeedPath(r) == [i \in 1..Len(r.RawPath) |-> i - 1]
XAccPath(r) == [i \in 1..Len(r.RawPath) |-> i - 1]

\* None, for a snapshot the sequence is too short to give.
NoToken == 0 - 1

\* seq[closest_point_idx] if closest_point_idx < len(seq) else None
TokenAt(seq, closest_point_idx) ==
    IF closest_point_idx < Len(seq) THEN seq[closest_point_idx + 1]
    ELSE NoToken

\* Lines 115-137: the match record of one entry of nearby_crashes.
MatchRecord(r, entry) ==
    [crash_id |-> entry[1],
     distance_to_crash |-> entry[2],
     closest_point_idx |-> entry[3],
     closest_timestamp |-> TokenAt(TimestampPath(r), entry[3]),
     speed_at_point |-> TokenAt(SpeedPath(r), entry[3]),
     x_accel_at_point |-> TokenAt(XAccPath(r), entry[3])]

\* Line 95 and process_vehicle_file lines 113-139.
ReturnMatches ==
    /\ lpc = "scan"
    /\ point_idx = Len(path_nztm)
    /\ nearby' = MatchList(crash_matches)
    /\ matches_in_file' =
          {MatchRecord(row, entry) : entry \in MatchList(crash_matches)}
    /\ lpc' = "done"
    /\ UNCHANGED <<crashes, treeInclusive, row, path_nztm, point_idx, crash_matches>>
    /\ UNCHANGED notLinkage

NextLinkage == SkipRow \/ DecodeRow \/ ScanPoint \/ ReturnMatches

SpecLinkage == InitLinkage /\ [][NextLinkage]_vars

----------------------------------------------------------------------------
(* Claims about the proximity matcher *)

\* find_nearby_crashes has returned for this row.
Returned == lpc = "done" /\ path_nztm # <<>>

Samples == 1..Len(path_nztm)

Min(S) == CHOOSE m \in S : \A x \in S : m <= x

\* The distances from crash c to the samples of the trip within the radius.
DistsWithin(c) ==
    {Dist(path_nztm[i], crashes[c]) : i \in
        {j \in Samples : Dist(path_nztm[j], crashes[c]) <= buffer_distance}}

\* C1: find_nearby_crashes returns at most one entry per crash, and the
\* distance of the entry is the least distance between the crash and any
\* sample of the trip within the match radius.
C1_MinDistance ==
    Returned =>
        \A c \in DOMAIN crashes :
            /\ Cardinality({t \in nearby : t[1] = c}) <= 1
            /\ \A t \in nearby :
                  t[1] = c => DistsWithin(c) # {} /\ t[2] = Min(DistsWithin(c))

\* The path of the row is missing, empty, or has an entry that is no number,
\* or has no entry of two numbers.
Undecodable ==
    \/ row.isna
    \/ \E i \in DOMAIN row.RawPath : row.RawPath[i] = NonNumeric
    \/ \A i \in DOMAIN row.RawPath : row.RawPath[i] \notin SampleLabels

\* No sample of the scanned path is within the radius of a crash, the radius
\* itself included.
NoneWithinRadius ==
    \A i \in Samples : \A c \in DOMAIN crashes :
        Dist(path_nztm[i], crashes[c]) > buffer_distance

C2_NoCrashOmitted ==
    Returned =>
        \A c \in DOMAIN crashes :
            (\E i \in Samples : Dist(path_nztm[i], crashes[c]) < buffer_distance)
                => \E t \in nearby : t[1] = c

\* The samples (1-based) at the least distance from crash c, among those
\* within the radius.
AtMin(c) ==
    {j \in Samples :
        Dist(path_nztm[j], crashes[c]) = Min(DistsWithin(c))}

\* C22: the recorded best of a crash is replaced only by a strictly closer
\* sample, so when several samples of the trip are at the same minimum
\* distance from a crash, the closest_point_idx of its match is the smallest
\* of their indices.
C22_EarliestOfEqual ==
    Returned =>
        \A t \in nearby :
            Cardinality(AtMin(t[1])) >= 2 => t[3] + 1 = Min(AtMin(t[1]))

\* The entries of the row's RawPath that are well-formed samples less than
\* the radius away from a crash of the index.
ValidNearSamples ==
    {i \in DOMAIN row.RawPath :
        /\ row.RawPath[i] \in SampleLabels
        /\ \E c \in DOMAIN crashes :
              Dist(transformer_to_nztm(row.RawPath[i]), crashes[c])
                  < buffer_distance}

\* C26: a malformed entry of a trip's path (not a number, or of the wrong
\* shape) costs only that sample: when the row is done, the valid samples
\* have been matched, so a row with a valid sample near a crash has a match.
C26_OnlyBadSampleSkipped ==
    lpc = "done" => (ValidNearSamples # {} => nearby # {})

\* The raw positions (0-based) of the entries of the RawPath that the
\* decoder kept, in order: the k-th is the raw position of decoded sample k.
RECURSIVE KeptPositions(_, _)
KeptPositions(raw, i) ==
    IF i > Len(raw) THEN <<>>
    ELSE IF raw[i] \in SampleLabels
         THEN <<i - 1>> \o KeptPositions(raw, i + 1)
         ELSE KeptPositions(raw, i + 1)

\* C29: the timestamp, speed and acceleration of a match are those of the
\* sample that achieved the recorded distance: closest_point_idx names the
\* same sample in the decoded path and in TimestampPath, SpeedPath and
\* XAccPath, also when the decoder skipped entries of the raw path.
C29_SnapshotOfClosestSample ==
    lpc = "done" =>
        \A m \in matches_in_file :
            LET sample == KeptPositions(row.RawPath, 1)[m.closest_point_idx + 1]
            IN  /\ m.closest_timestamp = TimestampPath(row)[sample + 1]
                /\ m.speed_at_point = SpeedPath(row)[sample + 1]
                /\ m.x_accel_at_point = XAccPath(row)[sample + 1]

----------------------------------------------------------------------------
(* Temporal correlator and scorer: temporal_spatial_matcher.py             *)
(*                                                                         *)
(* Times are seconds since midnight, distances millimetres, scores and     *)
(* the rounded minutes hundredths (what round(x, 2) keeps).  A rational    *)
(* is a pair <<numerator, denominator>>.                                   *)

\* time_windows=[5, 10, 15, 20]
time_windows == <<5, 10, 15, 20>>

\* The 25 of line 192.
ScoreRadius == 25
\* The weights of line 199, in tenths.
SpatialWeight == 6
TemporalWeight == 4

None == [known |-> FALSE, t |-> 0]
Some(t) == [known |-> TRUE, t |-> t]

\* round(x, 2) of the rational n/d >= 0, in hundredths: to the nearest, a tie
\* to the even neighbour.
RoundDiv(n, d) ==
    LET q == n \div d
        r == n % d
    IN  IF 2 * r < d THEN q
        ELSE IF 2 * r > d THEN q + 1
        ELSE IF q % 2 = 0 THEN q ELSE q + 1

Round2(x) == RoundDiv(100 * x[1], x[2])

RECURSIVE Gcd(_, _)
Gcd(a, b) == IF b = 0 THEN a ELSE Gcd(b, a % b)

\* The rational n/d (d > 0) in lowest terms.
Rat(n, d) == LET g == Gcd(Abs(n), d) IN <<n \div g, d \div g>>

\* max(0, x) of a rational.
Max0(x) == IF x[1] < 0 THEN <<0, 1>> ELSE x

\* parse_vehicle_timestamp: a text of the form "Y-m-d H:M:S" with or without
\* a fraction gives the time with the fraction cut off; anything else None.
parse_vehicle_timestamp(ts_str) ==
    IF ts_str.kind = "time" THEN Some(ts_str.sec) ELSE None

\* time_delta_minutes, as the rational seconds/60.
time_delta_minutes(dt1, dt2) ==
    IF ~dt1.known \/ ~dt2.known THEN None
    ELSE [known |-> TRUE, t |-> Rat(Abs(dt1.t - dt2.t), 60)]

\* Variants of the window test: the bound itself excluded, and the
\* comparison turned round.
ExceedsWindowStrict(time_diff, time_window) ==
    time_diff.t[1] >= time_window * time_diff.t[2]

ExceedsWindowFlipped(time_diff, time_window) ==
    time_diff.t[1] < time_window * time_diff.t[2]

\* Line 184: time_diff > time_window.
ExceedsWindow(time_diff, time_window) ==
    time_diff.t[1] > time_window * time_diff.t[2]

\* Variant of the spatial score: scaled by the match radius.
SpatialScoreByRadius(spatial_dist) ==
    Max0(Rat((1000 * buffer_distance - spatial_dist) * 100, 1000 * buffer_distance))

\* Line 192: max(0, (25 - spatial_dist) / 25 * 100).
SpatialScore(spatial_dist) ==
    Max0(Rat((1000 * ScoreRadius - spatial_dist) * 100, 1000 * ScoreRadius))

\* Variant of the temporal score: the elapsed share instead of the
\* remaining share of the window.
TemporalScoreElapsed(time_diff, time_window) ==
    Max0(Rat(time_diff[1] * 100, time_window * time_diff[2]))

\* Line 196: max(0, (time_window - time_diff) / time_window * 100).
TemporalScore(time_diff, time_window) ==
    Max0(Rat((time_window * time_diff[2] - time_diff[1]) * 100,
             time_window * time_diff[2]))

\* Variant of the combined score: the two weights exchanged.
CombinedScoreSwapped(spatial_score, temporal_score) ==
    Rat(TemporalWeight * spatial_score[1] * temporal_score[2]
          + SpatialWeight * temporal_score[1] * spatial_score[2],
        10 * spatial_score[2] * temporal_score[2])

\* Line 199: spatial_score * 0.6 + temporal_score * 0.4.
CombinedScore(spatial_score, temporal_score) ==
    Rat(SpatialWeight * spatial_score[1] * temporal_score[2]
          + TemporalWeight * temporal_score[1] * spatial_score[2],
        10 * spatial_score[2] * temporal_score[2])

\* Lines 201-212: the record appended to 'matched'.
ScoredMatch(match, crash, vehicle_ts, time_diff, time_window) ==
    LET spatial_score == SpatialScore(match.distance_to_crash)
        temporal_score == TemporalScore(time_diff, time_window)
        combined_score == CombinedScore(spatial_score, temporal_score)
    IN  [trip_id |-> match.trip_id,
         crash_id |-> match.crash_id,
         distance_to_crash |-> match.distance_to_crash,
         closest_timestamp |-> match.closest_timestamp,
         crash_datetime |-> crash.datetime.t,
         vehicle_timestamp |-> vehicle_ts.t,
         time_diff_minutes |-> Round2(time_diff),
         spatial_score |-> Round2(spatial_score),
         temporal_score |-> Round2(temporal_score),
         combined_score |-> Round2(combined_score)]

\* The crash catalogue: c1 at 12:00, c2 without a parsable date and time;
\* "cx" is a crash identifier the catalogue does not hold.
CrashTime == 12 * 3600
Catalogue ==
    [c \in {"c1", "c2"} |->
        [datetime |-> IF c = "c1" THEN Some(CrashTime) ELSE None]]

\* closest_timestamp texts: a time with or without a fraction of a second,
\* the empty text and a text that is no time.
TimeText(sec, frac) == [kind |-> "time", sec |-> sec, frac |-> frac]
EmptyText == [kind |-> "empty", sec |-> 0, frac |-> 0]
BadText == [kind |-> "bad", sec |-> 0, frac |-> 0]

TimestampTexts ==
    {TimeText(CrashTime + 120, 0), TimeText(CrashTime - 420, 0),
     TimeText(CrashTime + 1200, 500)}

Distances == {0, 10000, 12345, 30000}

\* The rows the spatial matches file is drawn from: candidates of c1 at each
\* distance and time, one just beyond the widest window, two without a
\* usable timestamp, one of the crash without a time and one of the unknown
\* crash.
MatchRows ==
    [trip_id : {"t1", "t2"}, crash_id : {"c1"},
     distance_to_crash : Distances, closest_timestamp : TimestampTexts]
    \cup
    [trip_id : {"t1"}, crash_id : {"c1"}, distance_to_crash : {10000},
     closest_timestamp : {TimeText(CrashTime + 1201, 0), EmptyText, BadText}]
    \cup
    [trip_id : {"t1"}, crash_id : {"c2", "cx"}, distance_to_crash : {10000},
     closest_timestamp : {TimeText(CrashTime + 120, 0)}]

InitTemporal ==
    /\ IdleReconcile
    /\ IdleLinkage
    /\ IdleBatch
    /\ IdleClassify
    /\ spatial_matches \in SeqsUpTo(MatchRows, MaxMatches) \ {<<>>}
    /\ tcrashes = Catalogue
    /\ tw = 1
    /\ ti = 0
    /\ matched = <<>>
    /\ skipped_no_time = 0
    /\ skipped_no_crash = 0
    /\ results_by_window = <<>>
    /\ exported = <<>>
    /\ tpc = "loop"

time_window == time_windows[tw]
match == spatial_matches[ti + 1]
InLoop == tpc = "loop" /\ ti < Len(spatial_matches)

\* Lines 166-169.
SkipNoCrash ==
    /\ InLoop
    /\ match.crash_id \notin DOMAIN tcrashes
    /\ skipped_no_crash' = skipped_no_crash + 1
    /\ ti' = ti + 1
    /\ UNCHANGED <<spatial_matches, tcrashes, tw, matched, skipped_no_time,
                   results_by_window, exported, tpc>>
    /\ UNCHANGED notTemporal

\* Lines 171-174.
SkipNoCrashTime ==
    /\ InLoop
    /\ match.crash_id \in DOMAIN tcrashes
    /\ ~tcrashes[match.crash_id].datetime.known
    /\ skipped_no_time' = skipped_no_time + 1
    /\ ti' = ti + 1
    /\ UNCHANGED <<spatial_matches, tcrashes, tw, matched, skipped_no_crash,
                   results_by_window, exported, tpc>>
    /\ UNCHANGED notTemporal

SkipNoVehicleTimeUncounted ==
    /\ InLoop
    /\ match.crash_id \in DOMAIN tcrashes
    /\ tcrashes[match.crash_id].datetime.known
    /\ ~parse_vehicle_timestamp(match.closest_timestamp).known
    /\ ti' = ti + 1
    /\ UNCHANGED <<spatial_matches, tcrashes, tw, matched, skipped_no_time,
                   skipped_no_crash, results_by_window, exported, tpc>>
    /\ UNCHANGED notTemporal

\* Lines 176-180.
SkipNoVehicleTime ==
    /\ InLoop
    /\ match.crash_id \in DOMAIN tcrashes
    /\ tcrashes[match.crash_id].datetime.known
    /\ ~parse_vehicle_timestamp(match.closest_timestamp).known
    /\ skipped_no_time' = skipped_no_time + 1
    /\ ti' = ti + 1
    /\ UNCHANGED <<spatial_matches, tcrashes, tw, matched, skipped_no_crash,
                   results_by_window, exported, tpc>>
    /\ UNCHANGED notTemporal

\* Lines 182-185.
OutsideWindow ==
    /\ InLoop
    /\ match.crash_id \in DOMAIN tcrashes
    /\ tcrashes[match.crash_id].datetime.known
    /\ parse_vehicle_timestamp(match.closest_timestamp).known
    /\ LET time_diff == time_delta_minutes(tcrashes[match.crash_id].datetime,
                            parse_vehicle_timestamp(match.closest_timestamp))
       IN  ~time_diff.known \/ ExceedsWindow(time_diff, time_window)
    /\ ti' = ti + 1
    /\ UNCHANGED <<spatial_matches, tcrashes, tw, matched, skipped_no_time,
                   skipped_no_crash, results_by_window, exported, tpc>>
    /\ UNCHANGED notTemporal

\* Lines 187-212.
AppendMatch ==
    /\ InLoop
    /\ match.crash_id \in DOMAIN tcrashes
    /\ tcrashes[match.crash_id].datetime.known
    /\ parse_vehicle_timestamp(match.closest_timestamp).known
    /\ LET crash == tcrashes[match.crash_id]
           vehicle_ts == parse_vehicle_timestamp(match.closest_timestamp)
           time_diff == time_delta_minutes(crash.datetime, vehicle_ts)
       IN  /\ time_diff.known
           /\ ~ExceedsWindow(time_diff, time_window)
           /\ matched' = Append(matched,
                  ScoredMatch(match, crash, vehicle_ts, time_diff.t, time_window))
    /\ ti' = ti + 1
    /\ UNCHANGED <<spatial_matches, tcrashes, tw, skipped_no_time,
                   skipped_no_crash, results_by_window, exported, tpc>>
    /\ UNCHANGED notTemporal

\* Lines 214-228: the window's list is stored under its window.
EndWindow ==
    /\ tpc = "loop"
    /\ ti = Len(spatial_matches)
    /\ results_by_window' =
          [w \in DOMAIN results_by_window \cup {time_window} |->
              IF w = time_window THEN matched ELSE results_by_window[w]]
    /\ tpc' = "window_done"
    /\ UNCHANGED exported
    /\ UNCHANGED <<spatial_matches, tcrashes, tw, ti, matched, skipped_no_time,
                   skipped_no_crash>>
    /\ UNCHANGED notTemporal

\* Lines 154-159: the next window starts with an empty list and zero counts.
NextWindow ==
    /\ tpc = "window_done"
    /\ tw < Len(time_windows)
    /\ tw' = tw + 1
    /\ ti' = 0
    /\ matched' = <<>>
    /\ skipped_no_time' = 0
    /\ skipped_no_crash' = 0
    /\ tpc' = "loop"
    /\ UNCHANGED <<spatial_matches, tcrashes, results_by_window, exported>>
    /\ UNCHANGED notTemporal

\* Line 230.
ReturnResults ==
    /\ tpc = "window_done"
    /\ tw = Len(time_windows)
    /\ tpc' = "done"
    /\ UNCHANGED <<spatial_matches, tcrashes, tw, ti, matched, skipped_no_time,
                   skipped_no_crash, results_by_window, exported>>
    /\ UNCHANGED notTemporal

RECURSIVE InsertByScore(_, _)
\* r put behind the records that score at least as much.
InsertByScore(r, list) ==
    IF list = <<>> THEN <<r>>
    ELSE IF Head(list).combined_score >= r.combined_score
         THEN <<Head(list)>> \o InsertByScore(r, Tail(list))
         ELSE <<r>> \o list

RECURSIVE SortedByScore(_)
\* Line 253: sorted(matches, key=combined_score, reverse=True); records of
\* equal score keep their order.
SortedByScore(list) ==
    IF list = <<>> THEN <<>>
    ELSE InsertByScore(list[Len(list)], SortedByScore(SubSeq(list, 1, Len(list) - 1)))

\* Line 254: the top quarter.
HighConfidence(list) == SubSeq(SortedByScore(list), 1, Len(list) \div 4)

\* export_results: a window with matches gets a file of its matches in the
\* order of the list, and a file of the top quarter by score when that is
\* not empty.
ExportResults ==
    /\ tpc = "done"
    /\ exported' =
          [w \in {v \in DOMAIN results_by_window : results_by_window[v] # <<>>} |->
              [file |-> results_by_window[w],
               high_confidence |-> HighConfidence(results_by_window[w])]]
    /\ tpc' = "exported"
    /\ UNCHANGED <<spatial_matches, tcrashes, tw, ti, matched, skipped_no_time,
                   skipped_no_crash, results_by_window>>
    /\ UNCHANGED notTemporal

NextTemporal ==
    \/ SkipNoCrash
    \/ SkipNoCrashTime
    \/ SkipNoVehicleTime
    \/ OutsideWindow
    \/ AppendMatch
    \/ EndWindow
    \/ NextWindow
    \/ ReturnResults
    \/ ExportResults

SpecTemporal == InitTemporal /\ [][NextTemporal]_vars

----------------------------------------------------------------------------
(* Claims about the temporal correlator and scorer *)

Windows == {time_windows[k] : k \in DOMAIN time_windows}

\* The input row a scored record was made from.
RowOf(r) ==
    [trip_id |-> r.trip_id, crash_id |-> r.crash_id,
     distance_to_crash |-> r.distance_to_crash,
     closest_timestamp |-> r.closest_timestamp]

Records(list) == {list[j] : j \in DOMAIN list}

\* All records emitted so far: the stored windows and the current list.
Emitted(w) ==
    (IF w \in DOMAIN results_by_window THEN Records(results_by_window[w]) ELSE {})
    \cup (IF tpc = "loop" /\ time_window = w THEN Records(matched) ELSE {})

\* Both timestamps of an input row are known.
BothKnown(m) ==
    /\ m.crash_id \in DOMAIN tcrashes
    /\ tcrashes[m.crash_id].datetime.known
    /\ m.closest_timestamp.kind = "time"

\* The time delta of an input row, in seconds.
DeltaSeconds(m) == Abs(tcrashes[m.crash_id].datetime.t - m.closest_timestamp.sec)

\* The time delta of a scored record, in seconds.
DeltaOf(r) == Abs(r.crash_datetime - r.vehicle_timestamp)

InResult(m, w) == \E r \in Records(results_by_window[w]) : RowOf(r) = m

\* C3: when temporal_match returns, a candidate with both timestamps known
\* is in the result set of window W exactly if its time delta is at most W
\* minutes, for each window separately; a candidate 7 minutes off is in the
\* sets of 10, 15 and 20 and not in the set of 5.
C3_WindowMembership ==
    tpc = "done" =>
        \A w \in Windows : \A m \in Records(spatial_matches) :
            BothKnown(m) =>
                /\ InResult(m, w) <=> DeltaSeconds(m) <= 60 * w
                /\ DeltaSeconds(m) = 7 * 60 =>
                      (InResult(m, w) <=> w \in {10, 15, 20})

C3_Witness ==
    /\ tpc = "done"
    /\ \E m \in Records(spatial_matches) :
          /\ BothKnown(m)
          /\ DeltaSeconds(m) = 7 * 60
          /\ ~InResult(m, 5)
          /\ InResult(m, 10) /\ InResult(m, 15) /\ InResult(m, 20)
    /\ \E m \in Records(spatial_matches) :
          BothKnown(m) /\ DeltaSeconds(m) = 20 * 60 /\ InResult(m, 20)

\* The spatial score of distance d (mm) against the radius R (m), rounded to
\* hundredths: clamp((R - d) / R * 100, 0, 100).
ClampedSpatial(d, R) ==
    IF d >= 1000 * R THEN 0
    ELSE IF d <= 0 THEN 100 * 100
    ELSE RoundDiv((1000 * R - d) * 10, R)

RoundedBlend(d, ds, w) ==
    LET sd == IF d >= 1000 * ScoreRadius THEN 0 ELSE 1000 * ScoreRadius - d
    IN  RoundDiv((9 * w * sd + 2500 * (60 * w - ds)) * 2, 75 * w)

C6_Monotone ==
    \A w \in Windows : \A r1, r2 \in Emitted(w) :
        /\ (r1.distance_to_crash = r2.distance_to_crash /\ DeltaOf(r1) >= DeltaOf(r2))
              => r1.combined_score <= r2.combined_score
        /\ (DeltaOf(r1) = DeltaOf(r2) /\ r1.distance_to_crash >= r2.distance_to_crash)
              => r1.combined_score <= r2.combined_score

C6_Witness ==
    \E w \in Windows : \E r1, r2 \in Emitted(w) :
        /\ r1.distance_to_crash = r2.distance_to_crash
        /\ DeltaOf(r1) > DeltaOf(r2)
        /\ r1.combined_score < r2.combined_score

\* C7: when temporal_match returns, the (trip, crash) candidates of a
\* window are among those of every larger window, and the temporal_score of
\* a candidate does not go down as the window grows.
C7_WindowContainment ==
    tpc = "done" =>
        \A w1, w2 \in Windows :
            w1 <= w2 =>
                \A r1 \in Records(results_by_window[w1]) :
                    \E r2 \in Records(results_by_window[w2]) :
                        /\ RowOf(r2) = RowOf(r1)
                        /\ r2.temporal_score >= r1.temporal_score

C7_Witness ==
    /\ tpc = "done"
    /\ \E r1 \in Records(results_by_window[5]) :
          \A w \in {10, 15, 20} :
              \E r2 \in Records(results_by_window[w]) :
                  RowOf(r2) = RowOf(r1) /\ r2.temporal_score > r1.temporal_score
    /\ \E r \in Records(results_by_window[10]) :
          \A r1 \in Records(results_by_window[5]) : RowOf(r1) # RowOf(r)

\* The rows the loop of the current window has been through.
Seen == 1..ti

\* A row of a catalogued crash that lacks the crash time or a parsable
\* sample timestamp.
NoTimestamp(m) == m.crash_id \in DOMAIN tcrashes /\ ~BothKnown(m)

\* A row with both timestamps whose delta exceeds w minutes.
Outside(m, w) == BothKnown(m) /\ DeltaSeconds(m) > 60 * w

\* C16: within each window's pass, the rows seen that lack a timestamp are
\* counted in skipped_no_time and those of an uncatalogued crash in
\* skipped_no_crash, none of them is in a result set, and the matched rows,
\* the two tallies and the rows outside the window add up to the rows seen.
C16_TalliesAddUp ==
    tpc \in {"loop", "window_done"} =>
        /\ skipped_no_time =
              Cardinality({j \in Seen : NoTimestamp(spatial_matches[j])})
        /\ skipped_no_crash =
              Cardinality({j \in Seen :
                              spatial_matches[j].crash_id \notin DOMAIN tcrashes})
        /\ Len(matched) + skipped_no_time + skipped_no_crash
              + Cardinality({j \in Seen : Outside(spatial_matches[j], time_window)})
              = ti
        /\ tpc = "window_done" => ti = Len(spatial_matches)
        /\ \A w \in Windows : \A r \in Emitted(w) : BothKnown(RowOf(r))

\* A window's pass ended with one row matched and one counted as having no
\* timestamp.
C16_Witness ==
    /\ tpc = "window_done"
    /\ skipped_no_time = 1
    /\ Len(matched) = 1
    /\ \E j \in Seen : spatial_matches[j].closest_timestamp.kind # "time"

\* r may come before q: it scores more, or the same with the smaller time
\* delta, or the same with the same delta and no greater distance.
MayPrecede(r, q) ==
    \/ r.combined_score > q.combined_score
    \/ /\ r.combined_score = q.combined_score
       /\ \/ DeltaOf(r) < DeltaOf(q)
          \/ /\ DeltaOf(r) = DeltaOf(q)
             /\ r.distance_to_crash <= q.distance_to_crash

\* C18: the records exported for each window are in descending order of
\* combined_score, ties by ascending time delta, then ascending distance.
C18_OrderedByScore ==
    tpc = "exported" =>
        \A w \in DOMAIN exported :
            \A j \in 1..(Len(exported[w].file) - 1) :
                MayPrecede(exported[w].file[j], exported[w].file[j + 1])

----------------------------------------------------------------------------
(* Batch drivers: resume_analysis_efficient.py and run_full_analysis.py    *)
(*                                                                         *)
(* The output file is a sequence of blocks of lines: a header line, or the *)
(* n match rows one write put there for one vehicle file.  Each block      *)
(* remembers the file it belongs to and the run that wrote it.             *)

\* row_count // 270000
EstimatedPerFile == 270000
\* batch_size = 10
batch_size == 10

Header(r) == [kind |-> "header", part |-> 0, n |-> 1, run |-> r]
Rows(p, k, r) == [kind |-> "rows", part |-> p, n |-> k, run |-> r]

RECURSIVE SumLines(_)
SumLines(lines) ==
    IF lines = <<>> THEN 0 ELSE Head(lines).n + SumLines(Tail(lines))

Min2(a, b) == IF a <= b THEN a ELSE b

\* count_existing_matches: (row_count, estimated_files).
count_existing_matches(f) ==
    IF ~f.exists THEN <<0, 0>>
    ELSE LET row_count == SumLines(f.lines) - 1
         IN  <<row_count, row_count \div EstimatedPerFile>>

\* What process_vehicle_file does with a file: it raises, or returns k matches.
Raises == [err |-> TRUE, n |-> 0]
Returns(k) == [err |-> FALSE, n |-> k]

\* A file raises, or yields no match, or one; the first file may also yield
\* as many matches as the estimate takes a file to hold, or twice as many.
Outcomes(i) ==
    {Raises, Returns(0), Returns(1)} \cup
    (IF i = 1
     THEN {Returns(EstimatedPerFile), Returns(2 * EstimatedPerFile)}
     ELSE {})

NumFiles == Len(vehicle_files)

\* Corpora: up to MaxFiles files, or batch_size + 1 files of one match each,
\* at most one of which raises.
SmallCorpora ==
    UNION {{f \in [1..k -> Outcomes(1)] : \A i \in 1..k : f[i] \in Outcomes(i)} :
              k \in 1..MaxFiles}

LargeCorpora ==
    {[i \in 1..(batch_size + 1) |-> IF i = e THEN Raises ELSE Returns(1)] :
        e \in {0, batch_size}}

InitBatch ==
    /\ IdleReconcile
    /\ IdleLinkage
    /\ IdleTemporal
    /\ IdleClassify
    /\ vehicle_files \in SmallCorpora \cup LargeCorpora
    /\ out = [exists |-> FALSE, lines |-> <<>>]
    /\ driver = "none"
    /\ bpc = "idle"
    /\ start_index = 0
    /\ idx = 0
    /\ all_matches = <<>>
    /\ total_new_matches = 0
    /\ runs = 0
    /\ sink_failures = 0
    /\ processed = {}
    /\ failed_writes = {}
    /\ logged = {}
    /\ history = <<>>

\* The runs so far that were stopped from outside.
Interrupted == {i \in DOMAIN history : history[i].ending = "killed"}

\* The failed writes and the stopped runs so far.
Faults == sink_failures + Cardinality(Interrupted)

CanStart == bpc \in {"idle", "done", "failed", "killed"} /\ runs < MaxRuns

\* resume_analysis lines 44-65.
StartResume ==
    /\ CanStart
    /\ driver' = "resume"
    /\ start_index' =
          IF out.exists
          THEN Min2(count_existing_matches(out)[2], NumFiles - 1)
          ELSE 0
    /\ idx' = start_index' + 1
    /\ total_new_matches' = 0
    /\ all_matches' = <<>>
    /\ runs' = runs + 1
    /\ processed' = {}
    /\ failed_writes' = {}
    /\ logged' = {}
    /\ bpc' = "loop"
    /\ UNCHANGED <<vehicle_files, out, sink_failures, history>>
    /\ UNCHANGED notBatch

InResume == driver = "resume" /\ bpc = "loop" /\ idx <= NumFiles

\* Lines 70-72 and 100-102: process_vehicle_file raises.
ResumeFileRaises ==
    /\ InResume
    /\ vehicle_files[idx].err
    /\ idx' = idx + 1
    /\ UNCHANGED <<vehicle_files, out, driver, bpc, start_index, all_matches,
                   total_new_matches, runs, sink_failures, processed,
                   failed_writes, history>>
    /\ logged' = logged \cup {idx}
    /\ UNCHANGED notBatch

\* Lines 70-75: no matches, nothing is written.
ResumeFileEmpty ==
    /\ InResume
    /\ ~vehicle_files[idx].err
    /\ vehicle_files[idx].n = 0
    /\ processed' = processed \cup {idx}
    /\ idx' = idx + 1
    /\ UNCHANGED <<vehicle_files, out, driver, bpc, start_index, all_matches,
                   total_new_matches, runs, sink_failures, failed_writes, logged,
                   history>>
    /\ UNCHANGED notBatch

\* Lines 79-82: the first batch of a new file goes with a header, every
\* other batch is appended without one.
AppendBatch(f, i, k, r) ==
    IF i = 1 /\ ~f.exists
    THEN [exists |-> TRUE, lines |-> <<Header(r), Rows(i, k, r)>>]
    ELSE [exists |-> TRUE, lines |-> Append(f.lines, Rows(i, k, r))]

\* Lines 70-84: the matches of the file are written.
ResumeFileWritten ==
    /\ InResume
    /\ ~vehicle_files[idx].err
    /\ vehicle_files[idx].n > 0
    /\ out' = AppendBatch(out, idx, vehicle_files[idx].n, runs)
    /\ total_new_matches' = total_new_matches + vehicle_files[idx].n
    /\ processed' = processed \cup {idx}
    /\ idx' = idx + 1
    /\ UNCHANGED <<vehicle_files, driver, bpc, start_index, all_matches, runs,
                   sink_failures, failed_writes, logged,
                   history>>
    /\ UNCHANGED notBatch

\* Lines 79-82 and 100-102: to_csv raises and the except clause goes on to
\* the next file.
ResumeWriteRaises ==
    /\ InResume
    /\ ~vehicle_files[idx].err
    /\ vehicle_files[idx].n > 0
    /\ Faults < MaxFaults
    /\ sink_failures' = sink_failures + 1
    /\ failed_writes' = failed_writes \cup {idx}
    /\ logged' = logged \cup {idx}
    /\ processed' = processed \cup {idx}
    /\ idx' = idx + 1
    /\ UNCHANGED <<vehicle_files, out, driver, bpc, start_index, all_matches,
                   total_new_matches, runs, history>>
    /\ UNCHANGED notBatch

\* The run went through every file, none raised and no write failed.
CleanRun ==
    start_index = 0 /\ processed = 1..NumFiles /\ failed_writes = {}

\* How the current run ends.
Ended(how) ==
    [driver |-> driver, ending |-> how, clean |-> how = "done" /\ CleanRun]

\* Lines 104-117: the final summary.
ResumeFinish ==
    /\ driver = "resume"
    /\ bpc = "loop"
    /\ idx > NumFiles
    /\ bpc' = "done"
    /\ history' = Append(history, Ended("done"))
    /\ UNCHANGED <<vehicle_files, out, driver, start_index, idx, all_matches,
                   total_new_matches, runs, sink_failures, processed,
                   failed_writes, logged>>
    /\ UNCHANGED notBatch

\* run_full_analysis lines 11-36.
StartFull ==
    /\ CanStart
    /\ driver' = "full"
    /\ start_index' = 0
    /\ idx' = 1
    /\ total_new_matches' = 0
    /\ all_matches' = <<>>
    /\ runs' = runs + 1
    /\ processed' = {}
    /\ failed_writes' = {}
    /\ logged' = {}
    /\ bpc' = "loop"
    /\ UNCHANGED <<vehicle_files, out, sink_failures, history>>
    /\ UNCHANGED notBatch

InFull == driver = "full" /\ bpc = "loop" /\ idx <= NumFiles

\* Line 44: all_matches.extend(matches).
Extended(buffer, i, k, r) ==
    IF k = 0 THEN buffer ELSE Append(buffer, Rows(i, k, r))

SaveDuePeriodicOnly(i) == i % batch_size = 0

\* Line 55.
SaveDue(i) == i % batch_size = 0 \/ i = NumFiles

\* Lines 56-57: the whole of all_matches replaces the file.
SavedFile(buffer, r) == [exists |-> TRUE, lines |-> <<Header(r)>> \o buffer]

FullFileRaisesAborts ==
    /\ InFull
    /\ vehicle_files[idx].err
    /\ bpc' = "failed"
    /\ history' = Append(history, Ended("failed"))
    /\ logged' = logged \cup {idx}
    /\ UNCHANGED <<vehicle_files, out, driver, start_index, idx, all_matches,
                   total_new_matches, runs, sink_failures, processed,
                   failed_writes>>
    /\ UNCHANGED notBatch

\* Lines 41-43 and 60-62: process_vehicle_file raises.
FullFileRaises ==
    /\ InFull
    /\ vehicle_files[idx].err
    /\ idx' = idx + 1
    /\ UNCHANGED <<vehicle_files, out, driver, bpc, start_index, all_matches,
                   total_new_matches, runs, sink_failures, processed,
                   failed_writes, history>>
    /\ logged' = logged \cup {idx}
    /\ UNCHANGED notBatch

\* Lines 41-55: the matches join all_matches and no save is due.
FullFileKept ==
    /\ InFull
    /\ ~vehicle_files[idx].err
    /\ ~SaveDue(idx)
    /\ all_matches' = Extended(all_matches, idx, vehicle_files[idx].n, runs)
    /\ processed' = processed \cup {idx}
    /\ idx' = idx + 1
    /\ UNCHANGED <<vehicle_files, out, driver, bpc, start_index,
                   total_new_matches, runs, sink_failures, failed_writes, logged,
                   history>>
    /\ UNCHANGED notBatch

\* Lines 41-58: the matches join all_matches and the file is rewritten.
FullFileSaved ==
    /\ InFull
    /\ ~vehicle_files[idx].err
    /\ SaveDue(idx)
    /\ all_matches' = Extended(all_matches, idx, vehicle_files[idx].n, runs)
    /\ out' = SavedFile(all_matches', runs)
    /\ processed' = processed \cup {idx}
    /\ idx' = idx + 1
    /\ UNCHANGED <<vehicle_files, driver, bpc, start_index, total_new_matches,
                   runs, sink_failures, failed_writes, logged,
                   history>>
    /\ UNCHANGED notBatch

\* Lines 56-57 and 60-62: to_csv raises and the except clause goes on to the
\* next file.
FullSaveRaises ==
    /\ InFull
    /\ ~vehicle_files[idx].err
    /\ SaveDue(idx)
    /\ Faults < MaxFaults
    /\ all_matches' = Extended(all_matches, idx, vehicle_files[idx].n, runs)
    /\ sink_failures' = sink_failures + 1
    /\ failed_writes' = failed_writes \cup {idx}
    /\ logged' = logged \cup {idx}
    /\ processed' = processed \cup {idx}
    /\ idx' = idx + 1
    /\ UNCHANGED <<vehicle_files, out, driver, bpc, start_index,
                   total_new_matches, runs, history>>
    /\ UNCHANGED notBatch

\* Lines 69-83: the summary reads columns that an empty table does not have.
SummaryOf(buffer) == IF buffer = <<>> THEN "failed" ELSE "done"

\* Lines 64-90: the final summary.
FullFinish ==
    /\ driver = "full"
    /\ bpc = "loop"
    /\ idx > NumFiles
    /\ bpc' = SummaryOf(all_matches)
    /\ history' = Append(history, Ended(bpc'))
    /\ UNCHANGED <<vehicle_files, out, driver, start_index, idx, all_matches,
                   total_new_matches, runs, sink_failures, processed,
                   failed_writes, logged>>
    /\ UNCHANGED notBatch

\* The process is stopped between two files; what it held in memory is gone.
Interrupt ==
    /\ bpc = "loop"
    /\ Faults < MaxFaults
    /\ bpc' = "killed"
    /\ all_matches' = <<>>
    /\ history' = Append(history, Ended("killed"))
    /\ UNCHANGED <<vehicle_files, out, driver, start_index, idx,
                   total_new_matches, runs, sink_failures, processed,
                   failed_writes, logged>>
    /\ UNCHANGED notBatch

NextBatch ==
    \/ StartResume
    \/ ResumeFileRaises
    \/ ResumeFileEmpty
    \/ ResumeFileWritten
    \/ ResumeWriteRaises
    \/ ResumeFinish
    \/ StartFull
    \/ FullFileRaises
    \/ FullFileKept
    \/ FullFileSaved
    \/ FullSaveRaises
    \/ FullFinish
    \/ Interrupt

SpecBatch == InitBatch /\ [][NextBatch]_vars

----------------------------------------------------------------------------
(* Claims about the batch drivers                                          *)

Blocks == {out.lines[i] : i \in DOMAIN out.lines}

RECURSIVE RowsOfPart(_, _)
\* The number of match rows the file holds for vehicle file p.
RowsOfPart(lines, p) ==
    IF lines = <<>> THEN 0
    ELSE (IF Head(lines).kind = "rows" /\ Head(lines).part = p
          THEN Head(lines).n ELSE 0) + RowsOfPart(Tail(lines), p)

\* The match rows the current run has put in the file.
WrittenThisRun == {b \in Blocks : b.kind = "rows" /\ b.run = runs}

\* The file holds the matches of vehicle file p, written by the current run.
Written(p) ==
    \E i \in DOMAIN out.lines :
        /\ out.lines[i].kind = "rows"
        /\ out.lines[i].run = runs
        /\ out.lines[i].part = p

\* The files whose matches the current run had to write.
Matched == {p \in processed : vehicle_files[p].n > 0}

ResumeDone == driver = "resume" /\ bpc = "done"

\* The run before the current one went through every file without failure.
AfterCleanRun ==
    /\ Len(history) >= 2
    /\ history[Len(history) - 1].clean

\* Every run before the current one was a resume_analysis that was stopped.
AfterInterruptedRuns ==
    \A i \in 1..(Len(history) - 1) :
        history[i].driver = "resume" /\ history[i].ending = "killed"

\* C8: when a run has gone through every file and written its output, a
\* resume_analysis that runs next appends no record to the output file.
C8_RerunAppendsNothing ==
    (ResumeDone /\ AfterCleanRun) => WrittenThisRun = {}

\* C9: after interrupted runs and a resume_analysis that runs to the end,
\* with no write ever failing, the output holds the matches of every file
\* that processes without error exactly once.
C9_ExactlyOnce ==
    (ResumeDone /\ AfterInterruptedRuns /\ sink_failures = 0) =>
        \A p \in 1..NumFiles :
            ~vehicle_files[p].err =>
                RowsOfPart(out.lines, p) = vehicle_files[p].n

C20_SinkFailureStops ==
    failed_writes # {} => (bpc # "loop" /\ \A p \in failed_writes : idx <= p)

\* The file after the step is the file before it with the complete match
\* list of vehicle file p added, and nothing else changed.
AddsPartition(p) ==
    /\ vehicle_files[p].n > 0
    /\ \/ out'.lines = Append(out.lines, Rows(p, vehicle_files[p].n, runs))
       \/ /\ ~out.exists
          /\ out'.lines = <<Header(runs), Rows(p, vehicle_files[p].n, runs)>>

\* C21: every step of a batch driver that changes the output file adds the
\* complete match list of exactly one vehicle file to it and leaves every
\* record that was in the file, records of earlier runs included, in place.
C21_AppendOnlyOnePartition ==
    [][out' # out => \E p \in 1..NumFiles : AddsPartition(p)]_vars

RECURSIVE RecordLines(_)
\* The number of lines of the file that are match records.
RecordLines(lines) ==
    IF lines = <<>> THEN 0
    ELSE (IF Head(lines).kind = "rows" THEN Head(lines).n ELSE 0)
            + RecordLines(Tail(lines))

\* C27: whenever resume_analysis is the driver and the output file exists,
\* the first line of the file is the column header, every other line is a
\* match record, and count_existing_matches gives the number of match
\* records.
C27_HeaderThenRecords ==
    (driver = "resume" /\ out.exists) =>
        /\ out.lines # <<>>
        /\ out.lines[1].kind = "header"
        /\ \A i \in 2..Len(out.lines) : out.lines[i].kind = "rows"
        /\ count_existing_matches(out)[1] = RecordLines(out.lines)

\* C28: when run_full_analysis has reached its final summary and no write
\* raised, the output file holds the matches of every file that was
\* processed without error, whichever files raised.
C28_AllSavedAtSummary ==
    (driver = "full" /\ bpc \in {"done", "failed"} /\ failed_writes = {}) =>
        \A p \in 1..NumFiles :
            ~vehicle_files[p].err =>
                /\ p \in processed
                /\ vehicle_files[p].n > 0 => Written(p)

\* The vehicle files whose matches the current run has put in the file.
WrittenParts ==
    {out.lines[i].part :
        i \in {j \in DOMAIN out.lines : /\ out.lines[j].kind = "rows"
                                        /\ out.lines[j].run = runs}}

\* The files after which run_full_analysis saved all_matches.
SavePoints ==
    {q \in processed \ failed_writes : q % batch_size = 0 \/ q = NumFiles}

Visited == (start_index + 1)..(idx - 1)

----------------------------------------------------------------------------
(* Involvement classifier (identify_crash_involved_not_witness.py) and     *)
(* participant filter (identify_crash_participants.py), for one confirmed  *)
(* match and the trip it names.  Times are seconds, distances metres.      *)

PostCrashSamples == 20
SceneRadius == 50
MinPointsAtScene == 3
SlowSpeed == 10
SpeedDrop == 20
StrongAccel == 5
MinIndicators == 2
HospitalRadius == 500
EmergencySpeed == 80

\* A field of a comma-separated path or of a CSV row: a number, the empty
\* text, the text 'null', or a text that is no number.
Num(v) == [kind |-> "num", v |-> v]
EmptyField == [kind |-> "empty", v |-> 0]
NullField == [kind |-> "null", v |-> 0]
BadField == [kind |-> "bad", v |-> 0]

\* A RawPath entry: 'lon lat', dist metres from the crash once projected, or
\* an entry that does not split in two.
Point(dist) == [shape |-> "ok", dist |-> dist]
ShortPoint == [shape |-> "short", dist |-> 0]

\* parse_timestamp: the fraction of a second is cut off.
parse_timestamp(ts_str) ==
    IF ts_str.kind = "time" THEN Some(ts_str.sec) ELSE None

\* parse_crash_datetime: '%Y-%m-%d %H:%M' takes no seconds.
parse_crash_datetime(dt_str) ==
    IF dt_str.kind = "time" /\ dt_str.sec % 60 = 0 /\ dt_str.frac = 0
    THEN Some(dt_str.sec)
    ELSE None

Sample(ts, point, speed, xacc) ==
    [ts |-> ts, point |-> point, speed |-> speed, xacc |-> xacc]

\* The kinds of sample the trips are made of.
SampleKinds ==
    { Sample(TimeText(CrashTime + 120, 0), Point(10), Num(5), Num(6)),
      Sample(TimeText(CrashTime + 120, 500), Point(10), EmptyField, Num(0)),
      Sample(TimeText(CrashTime, 0), Point(80), Num(40), EmptyField),
      Sample(TimeText(CrashTime - 60, 0), Point(10), Num(40), Num(0 - 6)),
      Sample(BadText, Point(10), BadField, BadField),
      Sample(TimeText(CrashTime + 120, 0), ShortPoint, NullField, Num(0)),
      Sample(TimeText(CrashTime + 60, 0), Point(49), Num(25), Num(0)),
      Sample(TimeText(CrashTime + 60, 0), Point(10), BadField, Num(0)) }

Trips ==
    {[found |-> TRUE, samples |-> ss, origin_hospital |-> 0,
      dest_hospital |-> 0] : ss \in SeqsUpTo(SampleKinds, MaxSamples) \ {<<>>}}

\* Where the trip starts and ends relative to the nearest hospital, and the
\* trip's top speed.
Circumstances ==
    { [origin |-> 5000, dest |-> 5000, trip_speed_max |-> Num(60)],
      [origin |-> 300, dest |-> 5000, trip_speed_max |-> Num(60)],
      [origin |-> 5000, dest |-> HospitalRadius, trip_speed_max |-> BadField],
      [origin |-> 5000, dest |-> 5000, trip_speed_max |-> Num(81)] }

CrashDatetimes == {TimeText(CrashTime, 0), EmptyText}

InitClassify ==
    /\ IdleReconcile
    /\ IdleLinkage
    /\ IdleTemporal
    /\ IdleBatch
    /\ \E c \in Circumstances :
          /\ cmatch \in
                {[crash_datetime |-> dt, closest_point_idx |-> k,
                  trip_speed_max |-> c.trip_speed_max] :
                    dt \in CrashDatetimes, k \in 0..MaxSamples}
          /\ trip_data_cache \in
                {NoTrip} \cup
                {[t EXCEPT !.origin_hospital = c.origin,
                           !.dest_hospital = c.dest] : t \in Trips}
    /\ points_after_crash = <<>>
    /\ ci = 0
    /\ crash_involved = <<>>
    /\ witnesses = <<>>
    /\ candidates = <<>>
    /\ cand_idx = 0
    /\ emergency_responders = <<>>
    /\ crash_participants = <<>>
    /\ unknown = <<>>
    /\ cpc = "analyze"

\* Lines 94-97: the paths of the trip, split at the commas.
timestamps == [i \in DOMAIN trip_data_cache.samples |->
                  trip_data_cache.samples[i].ts]
raw_path == [i \in DOMAIN trip_data_cache.samples |->
                trip_data_cache.samples[i].point]
speeds == [i \in DOMAIN trip_data_cache.samples |->
              trip_data_cache.samples[i].speed]
x_accel == [i \in DOMAIN trip_data_cache.samples |->
               trip_data_cache.samples[i].xacc]

IsOkPoint(pt) == pt.shape = "ok"

\* Lines 100-105: only the entries that split in two become coordinates.
coords == SelectSeq(raw_path, IsOkPoint)

closest_point_idx == cmatch.closest_point_idx
crash_time == parse_crash_datetime(cmatch.crash_datetime)

\* Line 119: range(closest_point_idx, min(closest_point_idx + 20, len(timestamps))).
ScanEnd == Min2(closest_point_idx + PostCrashSamples, Len(timestamps))

\* Line 131: the speed of a post-crash point; anything but a number is 0.
speed_val(i) ==
    IF i < Len(speeds) /\ speeds[i + 1].kind = "num" THEN speeds[i + 1].v ELSE 0

\* Lines 120-123: sample i is a post-crash point.
IsPostCrash(i) ==
    LET ts == parse_timestamp(timestamps[i + 1])
    IN  ts.known /\ ts.t >= crash_time.t /\ i < Len(coords)

\* Lines 135-139.
PostCrashPoint(i) ==
    [time_after_crash |-> parse_timestamp(timestamps[i + 1]).t - crash_time.t,
     distance |-> coords[i + 1].dist,
     speed |-> speed_val(i)]

\* Lines 87-89: the trip of the match is in no vehicle file.
PassNoTrip ==
    /\ cpc = "analyze"
    /\ ~trip_data_cache.found
    /\ cpc' = "analyzed"
    /\ UNCHANGED <<cmatch, trip_data_cache, points_after_crash, ci,
                   crash_involved, witnesses, candidates, cand_idx,
                   emergency_responders, crash_participants, unknown>>
    /\ UNCHANGED notClassify

\* Lines 109-115: the crash time does not parse.
PassNoCrashTime ==
    /\ cpc = "analyze"
    /\ trip_data_cache.found
    /\ ~crash_time.known
    /\ cpc' = "analyzed"
    /\ UNCHANGED <<cmatch, trip_data_cache, points_after_crash, ci,
                   crash_involved, witnesses, candidates, cand_idx,
                   emergency_responders, crash_participants, unknown>>
    /\ UNCHANGED notClassify

\* Lines 117-119: the loop over the samples starts at the matched index.
BeginScan ==
    /\ cpc = "analyze"
    /\ trip_data_cache.found
    /\ crash_time.known
    /\ points_after_crash' = <<>>
    /\ ci' = closest_point_idx
    /\ cpc' = "scan"
    /\ UNCHANGED <<cmatch, trip_data_cache, crash_involved, witnesses,
                   candidates, cand_idx, emergency_responders,
                   crash_participants, unknown>>
    /\ UNCHANGED notClassify

\* Lines 119-139: one sample of the window.
ScanSample ==
    /\ cpc = "scan"
    /\ ci < ScanEnd
    /\ points_after_crash' =
          IF IsPostCrash(ci)
          THEN Append(points_after_crash, PostCrashPoint(ci))
          ELSE points_after_crash
    /\ ci' = ci + 1
    /\ UNCHANGED <<cmatch, trip_data_cache, crash_involved, witnesses,
                   candidates, cand_idx, emergency_responders,
                   crash_participants, unknown, cpc>>
    /\ UNCHANGED notClassify

\* Lines 142-143: no post-crash point, the match is passed over.
PassNoPoints ==
    /\ cpc = "scan"
    /\ ci >= ScanEnd
    /\ points_after_crash = <<>>
    /\ cpc' = "analyzed"
    /\ UNCHANGED <<cmatch, trip_data_cache, points_after_crash, ci,
                   crash_involved, witnesses, candidates, cand_idx,
                   emergency_responders, crash_participants, unknown>>
    /\ UNCHANGED notClassify

IsAtScene(pt) == pt.distance < SceneRadius

RECURSIVE SumSpeed(_)
SumSpeed(points) ==
    IF points = <<>> THEN 0 ELSE Head(points).speed + SumSpeed(Tail(points))

\* Line 151.
num_points_at_scene == Len(SelectSeq(points_after_crash, IsAtScene))

\* Two points at the scene are taken for a stay.
stayed_at_sceneTwoPoints ==
    /\ num_points_at_scene >= MinPointsAtScene - 1
    /\ SumSpeed(SelectSeq(points_after_crash, IsAtScene))
          < SlowSpeed * num_points_at_scene

\* Lines 153-156: the mean speed at the scene is the sum over
\* max(num_points_at_scene, 1); it is below 10 when the sum is below 10 times
\* that.
stayed_at_scene ==
    /\ num_points_at_scene >= MinPointsAtScene
    /\ SumSpeed(SelectSeq(points_after_crash, IsAtScene))
          < SlowSpeed * num_points_at_scene

\* Line 153: the sum of the speeds at the scene over max(num_points_at_scene, 1).
avg_speed_at_scene ==
    <<SumSpeed(SelectSeq(points_after_crash, IsAtScene)),
      IF num_points_at_scene >= 1 THEN num_points_at_scene ELSE 1>>

\* Lines 162-163: a speed of the speed path; '' and 'null' are 0, any other
\* text that is no number makes float raise.
SpeedOf(field) == IF field.kind = "num" THEN field.v ELSE 0

\* Lines 159-168.
sudden_decel ==
    /\ closest_point_idx > 0
    /\ closest_point_idx < Len(speeds)
    /\ speeds[closest_point_idx].kind # "bad"
    /\ speeds[closest_point_idx + 1].kind # "bad"
    /\ SpeedOf(speeds[closest_point_idx])
          - SpeedOf(speeds[closest_point_idx + 1]) > SpeedDrop

\* Lines 171-178: float raises on anything but a number.
strong_decel_accel ==
    /\ closest_point_idx < Len(x_accel)
    /\ x_accel[closest_point_idx + 1].kind = "num"
    /\ Abs(x_accel[closest_point_idx + 1].v) > StrongAccel

Count(b) == IF b THEN 1 ELSE 0

\* Line 181.
involvement_indicators ==
    Count(stayed_at_scene) + Count(sudden_decel) + Count(strong_decel_accel)

LikelyRoleAnyIndicator(n) == IF n >= 1 THEN "INVOLVED" ELSE "WITNESS"

\* Line 192.
LikelyRole(n) == IF n >= MinIndicators THEN "INVOLVED" ELSE "WITNESS"

\* Lines 183-193; avg_speed_at_scene is round(x, 1), in tenths.
Result ==
    [match |-> cmatch,
     stayed_at_scene |-> stayed_at_scene,
     num_points_at_scene |-> num_points_at_scene,
     avg_speed_at_scene |->
        RoundDiv(10 * avg_speed_at_scene[1], avg_speed_at_scene[2]),
     sudden_deceleration |-> sudden_decel,
     strong_accel |-> strong_decel_accel,
     involvement_indicators |-> involvement_indicators,
     likely_role |-> LikelyRole(involvement_indicators)]

\* Lines 145-198: the match is classified and filed.
Classify ==
    /\ cpc = "scan"
    /\ ci >= ScanEnd
    /\ points_after_crash # <<>>
    /\ IF involvement_indicators >= MinIndicators
       THEN /\ crash_involved' = Append(crash_involved, Result)
            /\ UNCHANGED witnesses
       ELSE /\ witnesses' = Append(witnesses, Result)
            /\ UNCHANGED crash_involved
    /\ cpc' = "analyzed"
    /\ UNCHANGED <<cmatch, trip_data_cache, points_after_crash, ci,
                   candidates, cand_idx, emergency_responders,
                   crash_participants, unknown>>
    /\ UNCHANGED notClassify

\* csv.DictWriter writes a bool as the text 'True' or 'False'.
CsvBool(b) == IF b THEN "True" ELSE "False"

\* Lines 234-239 of the classifier: a row of crash_WITNESSES.csv.
CsvRow(result) ==
    [match |-> result.match,
     stayed_at_scene |-> CsvBool(result.stayed_at_scene),
     num_points_at_scene |-> result.num_points_at_scene,
     avg_speed_at_scene |-> result.avg_speed_at_scene,
     sudden_deceleration |-> CsvBool(result.sudden_deceleration),
     strong_accel |-> CsvBool(result.strong_accel),
     involvement_indicators |-> result.involvement_indicators,
     likely_role |-> result.likely_role]

CsvRows(results) == [i \in DOMAIN results |-> CsvRow(results[i])]

\* identify_crash_participants.py lines 25-28.
IsCandidate(r) ==
    r.sudden_deceleration = "True" \/ r.stayed_at_scene = "True"

\* Lines 234-239 of the classifier: crash_WITNESSES.csv is written only when
\* there is a witness; without the file the participant filter stops at open.
FilterNoFile ==
    /\ cpc = "analyzed"
    /\ witnesses = <<>>
    /\ cpc' = "no_file"
    /\ UNCHANGED <<cmatch, trip_data_cache, points_after_crash, ci,
                   crash_involved, witnesses, candidates, cand_idx,
                   emergency_responders, crash_participants, unknown>>
    /\ UNCHANGED notClassify

\* Lines 18-29: the candidates are the witnesses with an indicator.
LoadCandidates ==
    /\ cpc = "analyzed"
    /\ witnesses # <<>>
    /\ candidates' = SelectSeq(CsvRows(witnesses), IsCandidate)
    /\ cand_idx' = 0
    /\ cpc' = "filter"
    /\ UNCHANGED <<cmatch, trip_data_cache, points_after_crash, ci,
                   crash_involved, witnesses, emergency_responders,
                   crash_participants, unknown>>
    /\ UNCHANGED notClassify

\* Lines 56-57 and 127: a trip has an entry when its path has two entries.
InTripLocations == trip_data_cache.found /\ Len(raw_path) >= 2

\* Lines 59-70 and 101-116: the distance from an end of the path to the
\* nearest hospital, none when the entry does not split in two.
distance_to_nearest_hospital(pt, dist) ==
    IF pt.shape = "ok" THEN Some(dist) ELSE None

origin_hospital_dist ==
    distance_to_nearest_hospital(raw_path[1], trip_data_cache.origin_hospital)

dest_hospital_dist ==
    distance_to_nearest_hospital(raw_path[Len(raw_path)],
                                 trip_data_cache.dest_hospital)

\* Lines 148 and 153.
NearHospital(d) == d.known /\ d.t < HospitalRadius

\* Lines 158-165.
HighSpeedApproach(candidate) ==
    /\ candidate.stayed_at_scene = "True"
    /\ candidate.match.trip_speed_max.kind = "num"
    /\ candidate.match.trip_speed_max.v > EmergencySpeed

\* Lines 144-165.
is_emergency(candidate) ==
    \/ NearHospital(origin_hospital_dist)
    \/ NearHospital(dest_hospital_dist)
    \/ HighSpeedApproach(candidate)

\* Lines 168-172.
Classified(candidate) ==
    [candidate |-> candidate,
     origin_hospital_dist |-> origin_hospital_dist,
     dest_hospital_dist |-> dest_hospital_dist,
     classification |-> IF is_emergency(candidate)
                        THEN "EMERGENCY_RESPONDER"
                        ELSE "CRASH_PARTICIPANT"]

\* Lines 124-177: one candidate.
ClassifyCandidate ==
    /\ cpc = "filter"
    /\ cand_idx < Len(candidates)
    /\ LET candidate == candidates[cand_idx + 1]
       IN  IF ~InTripLocations
           THEN /\ unknown' = Append(unknown, candidate)
                /\ UNCHANGED <<emergency_responders, crash_participants>>
           ELSE IF is_emergency(candidate)
           THEN /\ emergency_responders' =
                      Append(emergency_responders, Classified(candidate))
                /\ UNCHANGED <<crash_participants, unknown>>
           ELSE /\ crash_participants' =
                      Append(crash_participants, Classified(candidate))
                /\ UNCHANGED <<emergency_responders, unknown>>
    /\ cand_idx' = cand_idx + 1
    /\ UNCHANGED <<cmatch, trip_data_cache, points_after_crash, ci,
                   crash_involved, witnesses, candidates, cpc>>
    /\ UNCHANGED notClassify

\* Lines 179-235: the results are printed and exported.
FilterDone ==
    /\ cpc = "filter"
    /\ cand_idx >= Len(candidates)
    /\ cpc' = "done"
    /\ UNCHANGED <<cmatch, trip_data_cache, points_after_crash, ci,
                   crash_involved, witnesses, candidates, cand_idx,
                   emergency_responders, crash_participants, unknown>>
    /\ UNCHANGED notClassify

NextClassify ==
    \/ PassNoTrip
    \/ PassNoCrashTime
    \/ BeginScan
    \/ ScanSample
    \/ PassNoPoints
    \/ Classify
    \/ FilterNoFile
    \/ LoadCandidates
    \/ ClassifyCandidate
    \/ FilterDone

SpecClassify == InitClassify /\ [][NextClassify]_vars

----------------------------------------------------------------------------
(* Claims about the classifier and the participant filter                  *)

SeqRange(q) == {q[i] : i \in DOMAIN q}

\* The rows the classifier filed, and the rows the participant filter filed.
FirstPassRows == SeqRange(crash_involved) \cup SeqRange(witnesses)
SecondPassRows == SeqRange(emergency_responders) \cup SeqRange(crash_participants)

\* Both scripts have run.
ClassifyEnded == cpc \in {"done", "no_file"}

\* Every post-crash point is farther than the scene radius.
AllPointsDistant ==
    \A i \in DOMAIN points_after_crash :
        points_after_crash[i].distance > SceneRadius

\* C12: every classified match counts its true indicators, is INVOLVED
\* exactly with two or more and WITNESS otherwise, and is filed under its
\* role; with every post-crash point beyond 50 m and neither deceleration
\* nor acceleration indicator it has no indicator and is a WITNESS.
C12_RoleFromIndicators ==
    /\ \A r \in FirstPassRows :
          /\ r.involvement_indicators =
                Count(r.stayed_at_scene) + Count(r.sudden_deceleration)
                    + Count(r.strong_accel)
          /\ r.likely_role =
                (IF r.involvement_indicators >= 2 THEN "INVOLVED" ELSE "WITNESS")
          /\ (r.sudden_deceleration /\ r.strong_accel) => r.likely_role = "INVOLVED"
          /\ (AllPointsDistant /\ ~r.sudden_deceleration /\ ~r.strong_accel) =>
                /\ ~r.stayed_at_scene
                /\ r.involvement_indicators = 0
                /\ r.likely_role = "WITNESS"
    /\ \A r \in SeqRange(crash_involved) : r.likely_role = "INVOLVED"
    /\ \A r \in SeqRange(witnesses) : r.likely_role = "WITNESS"

\* A match with exactly one indicator was filed as a witness.
C12_Witness ==
    \E r \in SeqRange(witnesses) :
        /\ r.involvement_indicators = 1
        /\ r.likely_role = "WITNESS"

\* The trip starts or ends near a hospital, or stayed at the scene after a
\* fast trip.
EmergencySigns(r) ==
    \/ NearHospital(origin_hospital_dist)
    \/ NearHospital(dest_hospital_dist)
    \/ /\ r.stayed_at_scene
       /\ r.match.trip_speed_max.kind = "num"
       /\ r.match.trip_speed_max.v > EmergencySpeed

\* C13: a classified match whose trip shows the signs of an emergency
\* vehicle ends as EMERGENCY_RESPONDER, whatever role the classifier gave it.
C13_EmergencyTakesPrecedence ==
    ClassifyEnded =>
        \A r \in FirstPassRows :
            EmergencySigns(r) =>
                \E e \in SeqRange(emergency_responders) :
                    /\ e.candidate.match = r.match
                    /\ e.classification = "EMERGENCY_RESPONDER"

\* C14: a confirmed match with no post-crash point is emitted with role
\* UNKNOWN.
C14_MissingDataIsUnknown ==
    (ClassifyEnded /\ trip_data_cache.found /\ crash_time.known
        /\ points_after_crash = <<>>) =>
        \/ \E r \in FirstPassRows : r.likely_role = "UNKNOWN"
        \/ \E e \in SecondPassRows : e.classification = "UNKNOWN"

Roles == {"INVOLVED", "WITNESS", "EMERGENCY_RESPONDER", "UNKNOWN"}

\* C19: every role either pass writes is INVOLVED, WITNESS,
\* EMERGENCY_RESPONDER or UNKNOWN.
C19_RolesEnumerated ==
    /\ \A r \in FirstPassRows : r.likely_role \in Roles
    /\ \A e \in SecondPassRows : e.classification \in Roles

\* The numbers of the samples, counted from 0, that became post-crash points:
\* those of the window with a timestamp at or after the crash time and a
\* coordinate pair at their index.
RecordedSamples ==
    {i \in closest_point_idx..(Len(timestamps) - 1) :
        /\ i < closest_point_idx + PostCrashSamples
        /\ i < Len(coords)
        /\ LET ts == parse_timestamp(timestamps[i + 1])
           IN  ts.known /\ ts.t >= crash_time.t}

\* The speeds of the samples from i on that became post-crash points, a
\* speed that is missing or no number as 0.
RECURSIVE RecordedSpeeds(_, _)
RecordedSpeeds(R, i) ==
    IF i >= Len(timestamps) THEN <<>>
    ELSE IF i \notin R THEN RecordedSpeeds(R, i + 1)
    ELSE LET field == IF i < Len(speeds) THEN speeds[i + 1] ELSE EmptyField
         IN  <<IF field.kind = "num" THEN field.v ELSE 0>>
                 \o RecordedSpeeds(R, i + 1)

\* The post-crash points within the scene radius, and the sum of the speeds
\* of a set of post-crash points.
PointsAtScene ==
    {k \in DOMAIN points_after_crash :
        points_after_crash[k].distance < SceneRadius}

RECURSIVE SpeedTotal(_)
SpeedTotal(K) ==
    IF K = {} THEN 0
    ELSE LET k == CHOOSE x \in K : TRUE
         IN  points_after_crash[k].speed + SpeedTotal(K \ {k})

HasSpeed(i) == i >= 0 /\ i < Len(speeds) /\ speeds[i + 1].kind = "num"

\* C24: a classified match has the sudden deceleration indicator exactly
\* when the matched index has a preceding sample and the speed there exceeds
\* the speed at the matched index by more than 20; the indicator is off when
\* the matched index is 0 or beyond the speed path, and when either of the
\* two speeds is missing.
C24_SuddenDecelFromTwoSpeeds ==
    \A r \in FirstPassRows :
        r.sudden_deceleration <=>
            /\ closest_point_idx > 0
            /\ HasSpeed(closest_point_idx - 1)
            /\ HasSpeed(closest_point_idx)
            /\ speeds[closest_point_idx].v
                  - speeds[closest_point_idx + 1].v > SpeedDrop

\* The numbers of the samples, counted from 0, that follow the matched index
\* with a timestamp at or after the crash time.
FollowingSamples ==
    {i \in (closest_point_idx + 1)..(Len(timestamps) - 1) :
        LET ts == parse_timestamp(timestamps[i + 1])
        IN  ts.known /\ ts.t >= crash_time.t}

\* C25: once the window is scanned, the post-crash points are samples that
\* follow the matched index with a timestamp at or after the crash time, the
\* sample at the matched index not among them: there are at most 20 of them,
\* no more than there are such samples, and 20 when there are 20 such samples.
C25_WindowFollowsMatchedIndex ==
    (cpc # "analyze" /\ trip_data_cache.found /\ crash_time.known
        /\ ci >= ScanEnd) =>
        /\ Len(points_after_crash) <= PostCrashSamples
        /\ Len(points_after_crash) <= Cardinality(FollowingSamples)
        /\ Cardinality(FollowingSamples) >= PostCrashSamples =>
              Len(points_after_crash) = PostCrashSamples

----------------------------------------------------------------------------
(* Crash identity reconcilers: archive/versions/temporal_spatial_matcher_v2 *)
(* (KD-tree) and temporal_spatial_matcher_simple (linear scan), for one row *)
(* of the spatial matches.  Crash coordinates are metres on the lattice,    *)
(* distance_to_crash is in millimetres as in temporal_match.                *)

CoordTolerance == 50

\* The crash coordinate of the row.
OldCrash == <<0, 0>>

\* Where the authoritative catalogue may have a crash: 10 m off on either
\* side, and 49, 50 and 51 m off.
CataloguePlaces ==
    {<<10, 0>>, <<0 - 10, 0>>, <<49, 0>>, <<30, 40>>, <<51, 0>>}

CatalogueEntries ==
    {[pos |-> q, datetime |-> dt] :
        q \in CataloguePlaces, dt \in {Some(CrashTime), None}}

ReconRows ==
    [distance_to_crash : {10000, 1000 * ScoreRadius, 30000},
     closest_timestamp : {TimeText(CrashTime + 420, 0), BadText}]

InitReconcile ==
    /\ IdleLinkage
    /\ IdleTemporal
    /\ IdleBatch
    /\ IdleClassify
    /\ variant \in {"v2", "simple"}
    /\ nzta_crashes \in SeqsUpTo(CatalogueEntries, MaxCatalogue) \ {<<>>}
    /\ recon_row \in ReconRows
    /\ nzta_idx = 0
    /\ min_dist = Inf
    /\ closest_crash = NoCrash
    /\ spatial_matches_with_nzta = <<>>
    /\ coord_matched = 0
    /\ no_coord_match = 0
    /\ confirmed = [w \in 1..Len(time_windows) |-> <<>>]
    /\ rpc = "row"

\* The distance from the row's crash coordinate to catalogue crash k (0-based).
CoordDist(k) == Dist(OldCrash, nzta_crashes[k + 1].pos)

\* Lines 111-119 of v2, 140-153 of simple: the row with its catalogue crash.
Linked(k) ==
    [row |-> recon_row,
     nzta_crash_id |-> k,
     nzta_datetime |-> nzta_crashes[k + 1].datetime,
     coord_match_distance |-> CoordDist(k)]

\* Lines 95-97 (v2 96-97): a match farther than 25 m is passed over.
SkipDistant ==
    /\ rpc = "row"
    /\ recon_row.distance_to_crash > 1000 * ScoreRadius
    /\ rpc' = "joined"
    /\ UNCHANGED <<variant, nzta_crashes, recon_row, nzta_idx, min_dist,
                   closest_crash, spatial_matches_with_nzta, coord_matched,
                   no_coord_match, confirmed>>
    /\ UNCHANGED notReconcile

\* crash_tree.query(point, k=1): a crash no farther than any other.
NearestInTree ==
    {k \in 0..(Len(nzta_crashes) - 1) :
        \A j \in 0..(Len(nzta_crashes) - 1) : CoordDist(k) <= CoordDist(j)}

\* v2 line 107: distances < 50.
WithinTolerance(d) == d < CoordTolerance

\* v2 lines 99-121.
JoinByTree ==
    /\ rpc = "row"
    /\ variant = "v2"
    /\ recon_row.distance_to_crash <= 1000 * ScoreRadius
    /\ \E k \in NearestInTree :
          IF WithinTolerance(CoordDist(k))
          THEN /\ spatial_matches_with_nzta' =
                     Append(spatial_matches_with_nzta, Linked(k))
               /\ coord_matched' = coord_matched + 1
               /\ closest_crash' = k
               /\ UNCHANGED no_coord_match
          ELSE /\ no_coord_match' = no_coord_match + 1
               /\ UNCHANGED <<spatial_matches_with_nzta, coord_matched,
                              closest_crash>>
    /\ rpc' = "joined"
    /\ UNCHANGED <<variant, nzta_crashes, recon_row, nzta_idx, min_dist,
                   confirmed>>
    /\ UNCHANGED notReconcile

\* simple lines 98-104.
BeginLinearScan ==
    /\ rpc = "row"
    /\ variant = "simple"
    /\ recon_row.distance_to_crash <= 1000 * ScoreRadius
    /\ min_dist' = Inf
    /\ closest_crash' = NoCrash
    /\ nzta_idx' = 0
    /\ rpc' = "scan"
    /\ UNCHANGED <<variant, nzta_crashes, recon_row, spatial_matches_with_nzta,
                   coord_matched, no_coord_match, confirmed>>
    /\ UNCHANGED notReconcile

\* simple lines 106-110: one crash of the catalogue.
ScanCatalogue ==
    /\ rpc = "scan"
    /\ nzta_idx < Len(nzta_crashes)
    /\ IF CoordDist(nzta_idx) < min_dist
       THEN /\ min_dist' = CoordDist(nzta_idx)
            /\ closest_crash' = nzta_idx
       ELSE UNCHANGED <<min_dist, closest_crash>>
    /\ nzta_idx' = nzta_idx + 1
    /\ UNCHANGED <<variant, nzta_crashes, recon_row, spatial_matches_with_nzta,
                   coord_matched, no_coord_match, confirmed, rpc>>
    /\ UNCHANGED notReconcile

\* simple line 113: min_dist > 50 or not closest_crash.
Rejected(d, k) == d > CoordTolerance \/ k = NoCrash

\* simple lines 112-116.
JoinByScan ==
    /\ rpc = "scan"
    /\ nzta_idx >= Len(nzta_crashes)
    /\ IF Rejected(min_dist, closest_crash)
       THEN UNCHANGED <<spatial_matches_with_nzta, coord_matched>>
       ELSE /\ spatial_matches_with_nzta' =
                  Append(spatial_matches_with_nzta, Linked(closest_crash))
            /\ coord_matched' = coord_matched + 1
    /\ rpc' = "joined"
    /\ UNCHANGED <<variant, nzta_crashes, recon_row, nzta_idx, min_dist,
                   closest_crash, no_coord_match, confirmed>>
    /\ UNCHANGED notReconcile

\* v2 lines 154-167, simple lines 138-156: the record of a window's result
\* set.
Confirmed(m, vehicle_ts, time_diff, window) ==
    [nzta_crash_id |-> m.nzta_crash_id,
     crash_datetime |-> m.nzta_datetime.t,
     vehicle_timestamp |-> vehicle_ts.t,
     time_diff_minutes |-> Round2(time_diff),
     coord_match_distance |-> m.coord_match_distance]

\* v2 lines 141-167, simple lines 119-156: the linked rows a window keeps.
RECURSIVE WindowResults(_, _)
WindowResults(matches, window) ==
    IF matches = <<>> THEN <<>>
    ELSE LET m     == Head(matches)
             vehicle_ts == parse_vehicle_timestamp(m.row.closest_timestamp)
             time_diff == time_delta_minutes(m.nzta_datetime, vehicle_ts)
             rest == WindowResults(Tail(matches), window)
         IN  IF ~m.nzta_datetime.known THEN rest
             ELSE IF ~vehicle_ts.known THEN rest
             ELSE IF ~time_diff.known \/ ExceedsWindow(time_diff, window)
             THEN rest
             ELSE <<Confirmed(m, vehicle_ts, time_diff.t, window)>>
                     \o rest

\* v2 lines 129-185: the temporal filters over the linked rows.
ConfirmByTree ==
    /\ rpc = "joined"
    /\ variant = "v2"
    /\ confirmed' = [w \in 1..Len(time_windows) |->
                        WindowResults(spatial_matches_with_nzta,
                                      time_windows[w])]
    /\ rpc' = "done"
    /\ UNCHANGED <<variant, nzta_crashes, recon_row, nzta_idx, min_dist,
                   closest_crash, spatial_matches_with_nzta, coord_matched,
                   no_coord_match>>
    /\ UNCHANGED notReconcile

\* simple lines 118-156: the temporal check of the row just linked.
ConfirmByScan ==
    /\ rpc = "joined"
    /\ variant = "simple"
    /\ confirmed' = [w \in 1..Len(time_windows) |->
                        confirmed[w] \o
                            WindowResults(spatial_matches_with_nzta,
                                          time_windows[w])]
    /\ rpc' = "done"
    /\ UNCHANGED <<variant, nzta_crashes, recon_row, nzta_idx, min_dist,
                   closest_crash, spatial_matches_with_nzta, coord_matched,
                   no_coord_match>>
    /\ UNCHANGED notReconcile

NextReconcile ==
    \/ SkipDistant
    \/ JoinByTree
    \/ BeginLinearScan
    \/ ScanCatalogue
    \/ JoinByScan
    \/ ConfirmByTree
    \/ ConfirmByScan

SpecReconcile == InitReconcile /\ [][NextReconcile]_vars

----------------------------------------------------------------------------
(* Claims about the reconcilers.                                            *)

\* The distance from the row's crash coordinate to the nearest crash of the
\* authoritative catalogue.
NearestDist ==
    CHOOSE d \in {CoordDist(k) : k \in 0..(Len(nzta_crashes) - 1)} :
        \A j \in 0..(Len(nzta_crashes) - 1) : d <= CoordDist(j)

\* The row reached the reconciliation (it was not passed over as distant).
Reconciled == recon_row.distance_to_crash <= 1000 * ScoreRadius

IsLinked == spatial_matches_with_nzta # <<>>

InNoWindow == \A w \in 1..Len(time_windows) : confirmed[w] = <<>>

\* C15: once a spatial match has been reconciled, it is linked to the
\* nearest authoritative crash if and only if that crash lies within 50 m of
\* the match's crash coordinate, and a match with no authoritative crash
\* within 50 m is in no time window's result set.
C15_LinkedIffWithinTolerance ==
    (rpc = "done" /\ Reconciled) =>
        /\ IsLinked <=> NearestDist <= CoordTolerance
        /\ IsLinked =>
              spatial_matches_with_nzta[1].coord_match_distance = NearestDist
        /\ NearestDist > CoordTolerance => InNoWindow

\* What the KD-tree variant may leave for the row: the link to a nearest
\* crash closer than 50 m, or nothing.
TreeOutcomes ==
    {IF CoordDist(k) < CoordTolerance THEN <<Linked(k)>> ELSE <<>> :
        k \in NearestInTree}

\* What the linear scan leaves for the row: the link to the first of the
\* nearest crashes unless it is farther than 50 m.
ScanOutcome ==
    LET first == CHOOSE k \in NearestInTree : \A j \in NearestInTree : k <= j
    IN  IF CoordDist(first) > CoordTolerance THEN <<>> ELSE <<Linked(first)>>

\* C30: whichever variant reconciled a spatial match, the other variant
\* decides the same on the same catalogue: it accepts or rejects the match
\* alike and links the same authoritative crash, also when the nearest crash
\* is at exactly 50 m and when two crashes are equally close.
C30_VariantsAgree ==
    (rpc \in {"joined", "done"} /\ Reconciled) =>
        /\ variant = "v2" => spatial_matches_with_nzta = ScanOutcome
        /\ variant = "simple" => TreeOutcomes = {spatial_matches_with_nzta}

====
